---- MODULE Spec2Model ----
(***************************************************************************)
(* Model of xdgdir (src/src/lib.rs): resolution of the XDG base            *)
(* directories from an environment, and per-application derivation.        *)
(*                                                                         *)
(* Strings and paths are sequences of one-character strings.  An           *)
(* Option<T> is a sequence of length 0 (None) or 1 (Some).                 *)
(***************************************************************************)
EXTENDS Naturals, Sequences, FiniteSets

VARIABLES env, sets, last

vars == <<env, sets, last>>

\* ---------------------------------------------------------------- bounds
\* Number of writes to the environment in one behaviour.
MaxSets == 2

\* ------------------------------------------------------- option / result
None == <<>>
Some(x) == <<x>>
is_none(o) == Len(o) = 0
unwrap(o) == o[1]

Ok(v) == [ok |-> TRUE, val |-> v]
Err(e) == [ok |-> FALSE, err |-> e]

\* enum Error
HomeNotSet == [tag |-> "HomeNotSet"]
NotAbsolutePath(key, path) == [tag |-> "NotAbsolutePath", key |-> key, path |-> path]

\* ----------------------------------------------------------------- names
Keys == {"HOME", "XDG_DATA_HOME", "XDG_CONFIG_HOME", "XDG_STATE_HOME",
         "XDG_CACHE_HOME", "XDG_RUNTIME_DIR"}

\* String literals of from_context.
SEG_LOCAL == <<".", "l", "o", "c", "a", "l">>
SEG_CONFIG == <<".", "c", "o", "n", "f", "i", "g">>
SEG_CACHE == <<".", "c", "a", "c", "h", "e">>
SEG_BIN == <<"b", "i", "n">>
SEG_SHARE == <<"s", "h", "a", "r", "e">>
SEG_STATE == <<"s", "t", "a", "t", "e">>

\* Values an environment variable is given in the model: the empty string,
\* a blank, a relative name, the root, and two absolute paths.
Values == { <<>>, <<" ">>, <<"r">>, <<"/">>, <<"/", "a">>, <<"/", "b">> }

\* Application names passed to BaseDir::new: an absolute name, a plain
\* name, the empty name, "." and a name holding a separator.
Apps == << <<"/", "x">>, <<"m">>, <<>>, <<".">>, <<"n", "/", "m">> >>

\* ------------------------------------------------------------ std paths
\* String::is_empty
is_empty_trim(s) == \A i \in 1..Len(s) : s[i] = " "
is_empty(s) == Len(s) = 0

\* Path::is_absolute (Unix): the path begins at the root.
is_absolute(p) == Len(p) > 0 /\ p[1] = "/"

\* PathBuf::push / Path::join: an absolute argument replaces the path,
\* otherwise it is appended after a separator (added unless the path is
\* empty or already ends with one).
join(p, s) ==
    IF is_absolute(s) THEN s
    ELSE IF Len(p) > 0 /\ p[Len(p)] # "/" THEN p \o <<"/">> \o s
    ELSE p \o s

\* The pieces of a path between separators.
RECURSIVE split(_)
split(s) ==
    IF s = <<>> THEN << <<>> >>
    ELSE LET r == split(Tail(s))
         IN  IF Head(s) = "/" THEN << <<>> >> \o r
             ELSE << <<Head(s)>> \o Head(r) >> \o Tail(r)

RECURSIVE normal_parts(_, _)
normal_parts(raw, i) ==
    IF i > Len(raw) THEN <<>>
    ELSE LET rest == normal_parts(raw, i + 1)
         IN  IF raw[i] = <<>> \/ (raw[i] = <<".">> /\ i > 1) THEN rest
             ELSE <<raw[i]>> \o rest

\* Path::components: the root flag and the segments, with empty segments
\* and non-leading "." segments dropped.  PathBuf equality compares these.
components(p) == [root |-> is_absolute(p), parts |-> normal_parts(split(p), 1)]

\* ------------------------------------------------------------- Context
\* Context::get
get(context, key) == context[key]

\* ------------------------------------------------------------- BaseDir
ensure_path(key, path) ==
    IF is_absolute(path) THEN Ok(path)
    ELSE Err(NotAbsolutePath(key, path))

get_home_no_empty_check(context) ==
    LET v == get(context, "HOME")
    IN  IF is_none(v) THEN Err(HomeNotSet)
        ELSE ensure_path("HOME", unwrap(v))

get_home_no_ensure(context) ==
    LET v == get(context, "HOME")
    IN  IF is_none(v) THEN Err(HomeNotSet)
        ELSE IF is_empty(unwrap(v)) THEN Err(HomeNotSet)
        ELSE Ok(unwrap(v))

get_home(context) ==
    LET v == get(context, "HOME")
    IN  IF is_none(v) THEN Err(HomeNotSet)
        ELSE IF is_empty(unwrap(v)) THEN Err(HomeNotSet)
        ELSE ensure_path("HOME", unwrap(v))

get_path_no_ensure(context, key, default) ==
    LET v == get(context, key)
    IN  IF is_none(v) THEN Ok(default)
        ELSE IF is_empty(unwrap(v)) THEN Ok(default)
        ELSE Ok(unwrap(v))

get_path(context, key, default) ==
    LET v == get(context, key)
    IN  IF is_none(v) THEN Ok(default)
        ELSE IF is_empty(unwrap(v)) THEN Ok(default)
        ELSE ensure_path(key, unwrap(v))

\* The match on XDG_RUNTIME_DIR in from_context.
get_runtime_no_empty_check(context) ==
    LET v == get(context, "XDG_RUNTIME_DIR")
    IN  IF is_none(v) THEN Ok(None)
        ELSE LET r == ensure_path("XDG_RUNTIME_DIR", unwrap(v))
             IN  IF r.ok THEN Ok(Some(r.val)) ELSE r

get_runtime(context) ==
    LET v == get(context, "XDG_RUNTIME_DIR")
    IN  IF is_none(v) THEN Ok(None)
        ELSE IF is_empty(unwrap(v)) THEN Ok(None)
        ELSE LET r == ensure_path("XDG_RUNTIME_DIR", unwrap(v))
             IN  IF r.ok THEN Ok(Some(r.val)) ELSE r

\* The defaults computed in from_context.
bin_dir_no_local(home) == join(home, SEG_BIN)
bin_dir(home) == join(join(home, SEG_LOCAL), SEG_BIN)
default_data(home) == join(join(home, SEG_LOCAL), SEG_SHARE)
default_config(home) == join(home, SEG_CONFIG)
default_state_as_share(home) == join(join(home, SEG_LOCAL), SEG_SHARE)
default_state(home) == join(join(home, SEG_LOCAL), SEG_STATE)
default_cache(home) == join(home, SEG_CACHE)

BaseDirOf(home, bin, data, config, state, cache, runtime) ==
    [home |-> home, config |-> config, data |-> data, state |-> state,
     cache |-> cache, runtime |-> runtime, bin |-> bin]

from_context_config_first(context) ==
    LET home == get_home(context) IN
    IF ~home.ok THEN home ELSE
    LET bin == bin_dir(home.val)
        config == get_path(context, "XDG_CONFIG_HOME", default_config(home.val)) IN
    IF ~config.ok THEN config ELSE
    LET data == get_path(context, "XDG_DATA_HOME", default_data(home.val)) IN
    IF ~data.ok THEN data ELSE
    LET state == get_path(context, "XDG_STATE_HOME", default_state(home.val)) IN
    IF ~state.ok THEN state ELSE
    LET cache == get_path(context, "XDG_CACHE_HOME", default_cache(home.val)) IN
    IF ~cache.ok THEN cache ELSE
    LET runtime == get_runtime(context) IN
    IF ~runtime.ok THEN runtime ELSE
    Ok(BaseDirOf(home.val, bin, data.val, config.val, state.val, cache.val,
                 runtime.val))

from_context(context) ==
    LET home == get_home(context) IN
    IF ~home.ok THEN home ELSE
    LET bin == bin_dir(home.val)
        data == get_path(context, "XDG_DATA_HOME", default_data(home.val)) IN
    IF ~data.ok THEN data ELSE
    LET config == get_path(context, "XDG_CONFIG_HOME", default_config(home.val)) IN
    IF ~config.ok THEN config ELSE
    LET state == get_path(context, "XDG_STATE_HOME", default_state(home.val)) IN
    IF ~state.ok THEN state ELSE
    LET cache == get_path(context, "XDG_CACHE_HOME", default_cache(home.val)) IN
    IF ~cache.ok THEN cache ELSE
    LET runtime == get_runtime(context) IN
    IF ~runtime.ok THEN runtime ELSE
    Ok(BaseDirOf(home.val, bin, data.val, config.val, state.val, cache.val,
                 runtime.val))

\* BaseDir::new after a successful global(): the pushes of the name.
push_app(d, app_name) ==
    [d EXCEPT !.config = join(d.config, app_name),
              !.data = join(d.data, app_name),
              !.state = join(d.state, app_name),
              !.cache = join(d.cache, app_name),
              !.runtime = IF is_none(d.runtime) THEN None
                          ELSE Some(join(unwrap(d.runtime), app_name))]

new(context, app_name) ==
    LET global_dirs == from_context(context)
    IN  IF ~global_dirs.ok THEN global_dirs
        ELSE Ok(push_app(global_dirs.val, app_name))

\* ------------------------------------------------------------- the system
\* env:  the environment read through Context (the process environment of
\*       Env, or the map of the tests).
\* sets: number of writes made to env.
\* last: the latest call: its kind, its application name, the environment
\*       it read and what it returned.
EmptyEnv == [k \in Keys |-> None]

NoCall == [kind |-> "none", app |-> <<>>, env |-> EmptyEnv, res |-> Err(HomeNotSet)]

Init ==
    /\ env = [EmptyEnv EXCEPT !["HOME"] = Some(<<"/", "a">>)]
    /\ sets = 0
    /\ last = NoCall

\* context.insert(key, value) / std::env::set_var
SetVar ==
    /\ sets < MaxSets
    /\ \E k \in Keys, v \in Values : env' = [env EXCEPT ![k] = Some(v)]
    /\ sets' = sets + 1
    /\ UNCHANGED last

\* std::env::remove_var / env_clear of one variable
RemoveVar ==
    /\ sets < MaxSets
    /\ \E k \in Keys : env[k] # None /\ env' = [env EXCEPT ![k] = None]
    /\ sets' = sets + 1
    /\ UNCHANGED last

Global_consumes_runtime ==
    /\ last' = [kind |-> "global", app |-> <<>>, env |-> env, res |-> from_context(env)]
    /\ env' = [env EXCEPT !["XDG_RUNTIME_DIR"] = None]
    /\ UNCHANGED sets

\* BaseDir::global() / from_context(&context)
Global ==
    /\ last' = [kind |-> "global", app |-> <<>>, env |-> env, res |-> from_context(env)]
    /\ UNCHANGED <<env, sets>>

\* BaseDir::new(app_name)
New ==
    /\ \E i \in 1..Len(Apps) :
          last' = [kind |-> "new", app |-> Apps[i], env |-> env,
                   res |-> new(env, Apps[i])]
    /\ UNCHANGED <<env, sets>>

Next == SetVar \/ RemoveVar \/ Global \/ New

Spec == Init /\ [][Next]_vars

\* ------------------------------------------------------------ properties
\* Readings of an environment e used to state the properties.
Unset(e, k) == Len(e[k]) = 0
EmptyVal(e, k) == Len(e[k]) = 1 /\ Len(e[k][1]) = 0
Relative(e, k) == Len(e[k]) = 1 /\ Len(e[k][1]) > 0 /\ e[k][1][1] # "/"
Absolute(e, k) == Len(e[k]) = 1 /\ Len(e[k][1]) > 0 /\ e[k][1][1] = "/"
Blank(e, k) == Len(e[k]) = 1 /\ Len(e[k][1]) > 0
                 /\ \A i \in 1..Len(e[k][1]) : e[k][1][i] = " "
RelativeKeys(e) == {k \in Keys : Relative(e, k)}
XdgHomeKeys == {"XDG_DATA_HOME", "XDG_CONFIG_HOME", "XDG_STATE_HOME", "XDG_CACHE_HOME"}

\* The order in which from_context reads the variables.
CodeOrder == <<"HOME", "XDG_DATA_HOME", "XDG_CONFIG_HOME", "XDG_STATE_HOME",
               "XDG_CACHE_HOME", "XDG_RUNTIME_DIR">>
\* The order stated for the resolver.
StatedOrder == <<"HOME", "XDG_CONFIG_HOME", "XDG_DATA_HOME", "XDG_STATE_HOME",
                 "XDG_CACHE_HOME", "XDG_RUNTIME_DIR">>
FirstIn(order, S) ==
    order[CHOOSE i \in 1..Len(order) :
             order[i] \in S /\ \A j \in 1..(i - 1) : order[j] \notin S]
Called == last.kind # "none"
StartsAtRoot(p) == Len(p) > 0 /\ p[1] = "/"

\* C1 (as stated): when more than one variable holds a non-empty relative
\* path, the call returns NotAbsolutePath naming the first of them in the
\* order HOME, XDG_CONFIG_HOME, XDG_DATA_HOME, XDG_STATE_HOME,
\* XDG_CACHE_HOME, XDG_RUNTIME_DIR.
C1_StatedOrder ==
    (Called /\ Cardinality(RelativeKeys(last.env)) > 1) =>
        LET k == FirstIn(StatedOrder, RelativeKeys(last.env))
        IN  last.res = Err(NotAbsolutePath(k, last.env[k][1]))

\* C1 (amended): when more than one variable holds a non-empty relative
\* path, the call returns no BaseDir but the error of the first invalid
\* variable in the order HOME, XDG_DATA_HOME, XDG_CONFIG_HOME,
\* XDG_STATE_HOME, XDG_CACHE_HOME, XDG_RUNTIME_DIR: HomeNotSet when HOME is
\* unset or empty, otherwise NotAbsolutePath naming the first variable of
\* that order holding a relative path, with its value.
C1_CodeOrder ==
    (Called /\ Cardinality(RelativeKeys(last.env)) > 1) =>
        IF Unset(last.env, "HOME") \/ EmptyVal(last.env, "HOME")
        THEN last.res = Err(HomeNotSet)
        ELSE LET k == FirstIn(CodeOrder, RelativeKeys(last.env))
             IN  last.res = Err(NotAbsolutePath(k, last.env[k][1]))

C1_Witness ==
    /\ last.kind = "global"
    /\ Absolute(last.env, "HOME")
    /\ Relative(last.env, "XDG_DATA_HOME")
    /\ Relative(last.env, "XDG_CONFIG_HOME")
    /\ last.res = Err(NotAbsolutePath("XDG_DATA_HOME", last.env["XDG_DATA_HOME"][1]))

\* C2: when HOME is unset or the empty string, the call fails with
\* HomeNotSet, whatever the XDG_* variables hold.
C2_HomeNotSet ==
    (Called /\ (Unset(last.env, "HOME") \/ EmptyVal(last.env, "HOME"))) =>
        last.res = Err(HomeNotSet)

C2_Witness ==
    /\ Called
    /\ EmptyVal(last.env, "HOME")
    /\ \E k \in Keys \ {"HOME"} : Relative(last.env, k)
    /\ last.res = Err(HomeNotSet)

\* C3: when HOME holds a non-empty relative path, the call fails with
\* NotAbsolutePath("HOME", that path), whatever the XDG_* variables hold.
C3_HomeRelative ==
    (Called /\ Relative(last.env, "HOME")) =>
        last.res = Err(NotAbsolutePath("HOME", last.env["HOME"][1]))

C3_Witness ==
    /\ Called
    /\ Relative(last.env, "HOME")
    /\ \E k \in Keys \ {"HOME"} : Relative(last.env, k)
    /\ last.res = Err(NotAbsolutePath("HOME", last.env["HOME"][1]))

\* The field for key k is the variable's value when present and non-empty,
\* and otherwise the path made of home's segments followed by segs.
FieldResolved(e, k, field, segs) ==
    IF Unset(e, k) \/ EmptyVal(e, k)
    THEN components(field) =
            [root |-> TRUE, parts |-> components(e["HOME"][1]).parts \o segs]
    ELSE field = e[k][1]

\* C4: on a successful global resolution each of config, data, state and
\* cache is its variable's value verbatim when that is present and
\* non-empty, and its default under home when the variable is absent or
\* empty; each field is determined by home and its own variable only.
C4_OverrideOrDefault ==
    (last.kind = "global" /\ last.res.ok) =>
        LET d == last.res.val
            e == last.env
        IN  /\ FieldResolved(e, "XDG_CONFIG_HOME", d.config, <<SEG_CONFIG>>)
            /\ FieldResolved(e, "XDG_DATA_HOME", d.data, <<SEG_LOCAL, SEG_SHARE>>)
            /\ FieldResolved(e, "XDG_STATE_HOME", d.state, <<SEG_LOCAL, SEG_STATE>>)
            /\ FieldResolved(e, "XDG_CACHE_HOME", d.cache, <<SEG_CACHE>>)

C4_Witness ==
    /\ last.kind = "global"
    /\ last.res.ok
    /\ Absolute(last.env, "XDG_DATA_HOME")
    /\ EmptyVal(last.env, "XDG_CONFIG_HOME")
    /\ Unset(last.env, "XDG_STATE_HOME")
    /\ last.res.val.data = last.env["XDG_DATA_HOME"][1]
    /\ last.res.val.state = <<"/", "a", "/">> \o SEG_LOCAL \o <<"/">> \o SEG_STATE

\* C5: on a successful global resolution runtime is None exactly when
\* XDG_RUNTIME_DIR is absent or empty and Some(value) otherwise; an absent
\* or empty XDG_RUNTIME_DIR is never the reason of a failure.
C5_Runtime ==
    Called =>
        LET e == last.env
            off == Unset(e, "XDG_RUNTIME_DIR") \/ EmptyVal(e, "XDG_RUNTIME_DIR")
        IN  /\ (last.kind = "global" /\ last.res.ok) =>
                   /\ off <=> last.res.val.runtime = <<>>
                   /\ ~off => last.res.val.runtime = <<e["XDG_RUNTIME_DIR"][1]>>
            /\ (off /\ Absolute(e, "HOME") /\ \A k \in XdgHomeKeys : ~Relative(e, k))
                   => last.res.ok

C5_Witness ==
    /\ last.kind = "global"
    /\ EmptyVal(last.env, "XDG_RUNTIME_DIR")
    /\ last.res.ok
    /\ last.res.val.runtime = <<>>

\* d extends g by the segment app on the field of each of them.
Appended(gfield, dfield, app) ==
    components(dfield) =
        [root |-> components(gfield).root,
         parts |-> Append(components(gfield).parts, app)]

\* C6: new(app) fails with the error of the global resolver when that
\* fails, and otherwise returns the global BaseDir with the application
\* name appended as one final path segment to config, data, state, cache
\* and a present runtime, home and bin being the global values and an
\* absent runtime staying absent.
C6_AppSegmentAppended ==
    last.kind = "new" =>
        LET g == from_context(last.env)
        IN  IF ~g.ok THEN last.res = g
            ELSE /\ last.res.ok
                 /\ last.res.val.home = g.val.home
                 /\ last.res.val.bin = g.val.bin
                 /\ Appended(g.val.config, last.res.val.config, last.app)
                 /\ Appended(g.val.data, last.res.val.data, last.app)
                 /\ Appended(g.val.state, last.res.val.state, last.app)
                 /\ Appended(g.val.cache, last.res.val.cache, last.app)
                 /\ Len(last.res.val.runtime) = Len(g.val.runtime)
                 /\ Len(g.val.runtime) = 1 =>
                        Appended(g.val.runtime[1], last.res.val.runtime[1], last.app)

\* C7: every BaseDir returned by global() or new(app) has absolute home,
\* config, data, state, cache and bin, and a runtime absent or absolute.
C7_AllAbsolute ==
    (Called /\ last.res.ok) =>
        LET d == last.res.val
        IN  /\ \A p \in {d.home, d.config, d.data, d.state, d.cache, d.bin} :
                   StartsAtRoot(p)
            /\ \A i \in 1..Len(d.runtime) : StartsAtRoot(d.runtime[i])

C7_Witness ==
    /\ last.kind = "new"
    /\ last.app = <<"/", "x">>
    /\ last.res.ok
    /\ Len(last.res.val.runtime) = 1
    /\ Absolute(last.env, "XDG_CACHE_HOME")

\* C8: on every successful resolution bin is home/.local/bin, and two
\* successive successful calls whose environments agree on HOME return the
\* same bin whatever the XDG_* variables hold.
C8_BinFromHomeOnly ==
    [][(last' # last /\ last'.res.ok) =>
          /\ components(last'.res.val.bin) =
                [root |-> TRUE,
                 parts |-> components(last'.env["HOME"][1]).parts
                              \o <<SEG_LOCAL, SEG_BIN>>]
          /\ (Called /\ last.res.ok /\ last.env["HOME"] = last'.env["HOME"]) =>
                 last'.res.val.bin = last.res.val.bin]_vars

C8_Witness ==
    /\ Called
    /\ last.res.ok
    /\ last.env["HOME"] = <<<<"/", "b">>>>
    /\ Absolute(last.env, "XDG_DATA_HOME")
    /\ last.res.val.bin = <<"/", "b", "/">> \o SEG_LOCAL \o <<"/">> \o SEG_BIN

C10_BlankIsNotEmpty ==
    Called =>
        /\ Blank(last.env, "HOME") =>
               last.res = Err(NotAbsolutePath("HOME", last.env["HOME"][1]))
        /\ \A i \in 2..Len(CodeOrder) :
               Blank(last.env, CodeOrder[i]) =>
                   /\ ~last.res.ok
                   /\ (Absolute(last.env, "HOME")
                         /\ \A j \in 2..(i - 1) : ~Relative(last.env, CodeOrder[j]))
                       => last.res = Err(NotAbsolutePath(CodeOrder[i],
                                                         last.env[CodeOrder[i]][1]))

C10_Witness ==
    /\ Called
    /\ Absolute(last.env, "HOME")
    /\ Blank(last.env, "XDG_CACHE_HOME")
    /\ last.res = Err(NotAbsolutePath("XDG_CACHE_HOME", <<" ">>))

TypeOK ==
    /\ env \in [Keys -> {None} \cup {Some(v) : v \in Values}]
    /\ sets \in 0..MaxSets
    /\ last.kind \in {"none", "global", "new"}
====
